---------------------------- MODULE Spec2Model ----------------------------
(***************************************************************************)
(* Model of src/bot.js: the per-user conversation store of the Telegram    *)
(* bot, the history limiter, the AI request pipeline and the command       *)
(* handlers with the dispatch of inbound messages to them.                 *)
(*                                                                         *)
(* JavaScript arrays are objects: userConversations maps a user id to a    *)
(* reference, and processAIRequest keeps that reference across its await.  *)
(* The model therefore has a heap of arrays (heap) and references into it. *)
(* Text is a sequence of tokens; the token " " is whitespace.              *)
(***************************************************************************)
EXTENDS Integers, Sequences, FiniteSets, TLC

VARIABLES
    userConversations,  \* the Map of line 31: user id -> reference (NoAddr: no entry)
    heap,               \* reference -> array of Turns (<<>>: not allocated)
    runs,               \* message id -> the processAIRequest invocation it started
    outbox,             \* everything handed to bot.sendChatAction / bot.sendMessage, in order
    msgCount,           \* number of inbound messages handled so far
    inbox,              \* the inbound messages handled so far: sender and text
    trimIn,             \* limiter study: the conversation given
    trimMax,            \* limiter study: the maxMessages given
    trimOut             \* limiter study: the results of the successive applications

vars == <<userConversations, heap, runs, outbox, msgCount, inbox, trimIn, trimMax, trimOut>>

---------------------------------------------------------------------------
(* Bounds of the model *)

MaxMsgs == 3
LongMsgs == 13
WarmTurns == 17
LongInFlight == 2
MaxTrimLen == 5
MaxTrimBound == 4
MaxRouteMsgs == 2

Users == {"u1", "u2"}
LongUsers == {"u1"}
RouteUsers == {"u1"}

\* The k-th inbound message and the completion of the k-th request carry
\* words of their own, so that every Turn can be told from every other.
QuestionWord == <<"q1", "q2", "q3", "q4", "q5", "q6", "q7", "q8", "q9", "q10",
                  "q11", "q12", "q13", "q14", "q15", "q16">>
ReplyWord == <<"r1", "r2", "r3", "r4", "r5", "r6", "r7", "r8", "r9", "r10",
               "r11", "r12", "r13", "r14", "r15", "r16">>

\* What follows "/ask " in the k-th inbound text: blank, or a padded question.
Questions(k) == {<<" ">>, <<" ", QuestionWord[k]>>}
LongQuestions(k) == {<<QuestionWord[k]>>}
Replies(r) == {<<ReplyWord[r]>>}


---------------------------------------------------------------------------
(* Data *)

NoAddr == 0

NoStatus == 0

\* error.response?.status values: the statuses the code names, one it does not
\* name, and none at all (the error has no response).
AllStatuses == {401, 429, 500, 503, NoStatus}
Statuses == {429, NoStatus}
LongStatuses == {NoStatus}

MaxMessages == 20

SystemPrompt == <<"You are a helpful AI assistant">>

SystemTurn == [role |-> "system", content |-> SystemPrompt]

UserTurn(userMessage) == [role |-> "user", content |-> userMessage]

AssistantTurn(aiResponse) == [role |-> "assistant", content |-> aiResponse]

TypingAction == <<"typing">>
WelcomeText == <<"Welcome to the Memecoin Chat Bot">>
AskHelpText == <<"How to use the /ask command">>
HelpText == <<"How to use this bot">>
AskUsageText == <<"Please provide a question after the /ask command">>
ClearedText == <<"Conversation history cleared">>
ErrGeneric == <<"Sorry, I encountered an error">>
ErrAuth == <<"Authentication error">>
ErrRate == <<"Rate limit exceeded">>
ErrUnavailable == <<"OpenAI service temporarily unavailable">>

---------------------------------------------------------------------------
(* Pure helpers *)

Min(a, b) == IF a < b THEN a ELSE b
Max(a, b) == IF a > b THEN a ELSE b

\* Array.prototype.slice(begin): a negative begin counts from the end, and
\* -0 is 0, so slice(-0) is the whole array.
JsSlice(arr, begin) ==
    LET from == IF begin < 0 THEN Max(Len(arr) + begin, 0) ELSE Min(begin, Len(arr))
    IN  SubSeq(arr, from + 1, Len(arr))

\* String.prototype.trim(): drop leading and trailing whitespace.
RECURSIVE TrimStart(_)
TrimStart(s) ==
    IF s # <<>> /\ Head(s) = " " THEN TrimStart(Tail(s)) ELSE s

RECURSIVE TrimEnd(_)
TrimEnd(s) ==
    IF s # <<>> /\ s[Len(s)] = " " THEN TrimEnd(SubSeq(s, 1, Len(s) - 1)) ELSE s

JsTrim(s) == TrimEnd(TrimStart(s))

\* The limiter without its systemMessage: only the recent messages are kept.
limitDropsSystem(conversation, maxMessages) ==
    IF Len(conversation) > maxMessages
    THEN JsSlice(conversation, -maxMessages)
    ELSE conversation

\* The limiter slicing maxMessages recent messages instead of maxMessages - 1.
limitKeepsOneMore(conversation, maxMessages) ==
    IF Len(conversation) > maxMessages
    THEN <<conversation[1]>> \o JsSlice(conversation, -maxMessages)
    ELSE conversation

\* function limitConversationHistory(conversation, maxMessages = 20)
limitConversationHistory(conversation, maxMessages) ==
    IF Len(conversation) > maxMessages
    THEN <<conversation[1]>> \o JsSlice(conversation, -(maxMessages - 1))
    ELSE conversation

\* The catch block taking every status from 500 up as the service being down.
ErrorMessageAnyServerError(status) ==
    IF status = 401 THEN ErrAuth
    ELSE IF status = 429 THEN ErrRate
    ELSE IF status >= 500 THEN ErrUnavailable
    ELSE ErrGeneric

ErrorMessage(status) ==
    IF status = 401 THEN ErrAuth
    ELSE IF status = 429 THEN ErrRate
    ELSE IF status = 500 THEN ErrUnavailable
    ELSE ErrGeneric

---------------------------------------------------------------------------
(* Heap *)

\* A reference no array has yet: the least one.
FreshAddr(h) ==
    CHOOSE a \in 1..(Cardinality(DOMAIN h) + 1) :
        /\ a \notin DOMAIN h
        /\ \A b \in 1..(a - 1) : b \in DOMAIN h

\* References still held: by the Map, or by an invocation suspended at its await.
Live(store, rs) ==
    {store[u] : u \in DOMAIN store} \cup {rs[r].conversation : r \in DOMAIN rs}

\* An array nothing refers to is gone.
Collect(h, store, rs) ==
    [a \in (DOMAIN h) \cap Live(store, rs) |-> h[a]]

\* getUserConversation handing out a copy of the stored array.
getUserConversationCopy(store, h, userId) ==
    LET a  == FreshAddr(h)
        st == IF store[userId] = NoAddr THEN [store EXCEPT ![userId] = a] ELSE store
        h1 == IF store[userId] = NoAddr THEN h @@ (a :> <<SystemTurn>>) ELSE h
        b  == FreshAddr(h1)
    IN  [store |-> st, heap |-> h1 @@ (b :> h1[st[userId]]), ref |-> b]

\* getUserConversation without its has() test: every call seeds anew.
getUserConversationReseed(store, h, userId) ==
    LET a == FreshAddr(h)
    IN  [store |-> [store EXCEPT ![userId] = a],
         heap  |-> h @@ (a :> <<SystemTurn>>),
         ref   |-> a]

\* getUserConversation(userId): the Map and heap after the call, and the reference returned.
getUserConversation(store, h, userId) ==
    IF store[userId] = NoAddr
    THEN LET a == FreshAddr(h)
         IN  [store |-> [store EXCEPT ![userId] = a],
              heap  |-> h @@ (a :> <<SystemTurn>>),
              ref   |-> a]
    ELSE [store |-> store, heap |-> h, ref |-> store[userId]]

\* userConversations.set(userId, conversation): the limiter forgotten.
SetUnlimited(store, h, userId, ref) ==
    [store |-> [store EXCEPT ![userId] = ref], heap |-> h]

\* userConversations.set(userId, limitConversationHistory(conversation)): the
\* limiter returns its argument itself when short enough, else a new array.
SetLimited(store, h, userId, ref) ==
    IF Len(h[ref]) > MaxMessages
    THEN LET a == FreshAddr(h)
         IN  [store |-> [store EXCEPT ![userId] = a],
              heap  |-> h @@ (a :> limitConversationHistory(h[ref], MaxMessages))]
    ELSE [store |-> [store EXCEPT ![userId] = ref], heap |-> h]

Send(box, msgId, chatId, kind, text) ==
    Append(box, [msgId |-> msgId, chatId |-> chatId, kind |-> kind, text |-> text])

InFlight(rs, u) == {r \in DOMAIN rs : rs[r].userId = u /\ rs[r].pc = "awaiting"}

---------------------------------------------------------------------------
(* Initial state: the module has just been loaded *)

EmptyStore == [u \in Users |-> NoAddr]
EmptyHeap == <<>>

InitBot ==
    /\ userConversations = EmptyStore
    /\ heap = EmptyHeap
    /\ runs = <<>>
    /\ outbox = <<>>
    /\ msgCount = 0
    /\ inbox = <<>>

Init ==
    /\ InitBot
    /\ trimIn = <<>>
    /\ trimMax = 0
    /\ trimOut = <<>>

trimVars == <<trimIn, trimMax, trimOut>>

---------------------------------------------------------------------------
(* Handlers *)

\* The bot's state as a handler finds it and leaves it.
Cur == [store |-> userConversations, heap |-> heap, runs |-> runs, outbox |-> outbox]

\* A handler returned: its state becomes the bot's.
Commit(st) ==
    /\ userConversations' = st.store
    /\ runs' = st.runs
    /\ heap' = Collect(st.heap, st.store, st.runs)
    /\ outbox' = st.outbox

\* processAIRequest passing conversation itself, not limitedConversation, as
\* the messages of the request.
onAskQuestionSendsWhole(st, id, userId, question) ==
    LET chat == userId
        text == JsTrim(question)
    IN  IF text = <<>>
        THEN [st EXCEPT !.outbox = Send(@, id, chat, "message", AskUsageText)]
        ELSE LET box  == Send(st.outbox, id, chat, "chatAction", TypingAction)
                 got  == getUserConversation(st.store, st.heap, userId)
                 base == got.heap[got.ref]
                 h1   == [got.heap EXCEPT ![got.ref] = Append(@, UserTurn(text))]
                 run  == [userId |-> userId, chatId |-> chat, userMessage |-> text,
                          pc |-> "awaiting", conversation |-> got.ref,
                          messages |-> h1[got.ref],
                          calls |-> 1,
                          steps |-> <<"sendChatAction", "getUserConversation", "pushUser",
                                      "limitConversationHistory", "create">>,
                          base |-> base,
                          overlapped |-> InFlight(st.runs, userId) # {},
                          clearedAt |-> 0,
                          outcome |-> "pending", aiResponse |-> <<>>, status |-> NoStatus]
                 rs   == [r \in DOMAIN st.runs |->
                             IF st.runs[r].userId = userId /\ st.runs[r].pc = "awaiting"
                             THEN [st.runs[r] EXCEPT !.overlapped = TRUE] ELSE st.runs[r]]
             IN  [store |-> got.store, heap |-> h1, runs |-> rs @@ (id :> run),
                  outbox |-> box]

\* bot.onText(/\/ask (.+)/): a blank question is answered with the usage
\* text; otherwise processAIRequest runs up to its await. The run keeps the
\* reference it loaded (conversation); messages is what the request carries,
\* calls counts the requests made and steps lists the calls with an effect
\* in the order the run has executed them. base, overlapped and clearedAt record
\* the run's history: the transcript it loaded, whether another run of the
\* user was in flight with it, and the latest clear command handled while it
\* was in flight (0: none).
onAskQuestion(st, id, userId, question) ==
    LET chat == userId
        text == JsTrim(question)
    IN  IF text = <<>>
        THEN [st EXCEPT !.outbox = Send(@, id, chat, "message", AskUsageText)]
        ELSE LET box  == Send(st.outbox, id, chat, "chatAction", TypingAction)
                 got  == getUserConversation(st.store, st.heap, userId)
                 base == got.heap[got.ref]
                 h1   == [got.heap EXCEPT ![got.ref] = Append(@, UserTurn(text))]
                 run  == [userId |-> userId, chatId |-> chat, userMessage |-> text,
                          pc |-> "awaiting", conversation |-> got.ref,
                          messages |-> limitConversationHistory(h1[got.ref], MaxMessages),
                          calls |-> 1,
                          steps |-> <<"sendChatAction", "getUserConversation", "pushUser",
                                      "limitConversationHistory", "create">>,
                          base |-> base,
                          overlapped |-> InFlight(st.runs, userId) # {},
                          clearedAt |-> 0,
                          outcome |-> "pending", aiResponse |-> <<>>, status |-> NoStatus]
                 rs   == [r \in DOMAIN st.runs |->
                             IF st.runs[r].userId = userId /\ st.runs[r].pc = "awaiting"
                             THEN [st.runs[r] EXCEPT !.overlapped = TRUE] ELSE st.runs[r]]
             IN  [store |-> got.store, heap |-> h1, runs |-> rs @@ (id :> run),
                  outbox |-> box]

\* An inbound "/ask" followed by a space and the question.
AskQuestion(userId, question) ==
    /\ msgCount' = msgCount + 1
    /\ inbox' = Append(inbox, [from |-> userId, text |-> <<"/ask", " ">> \o question])
    /\ Commit(onAskQuestion(Cur, msgCount + 1, userId, question))
    /\ UNCHANGED trimVars

\* The success path updating the store (line 92) before it appends the
\* assistant's Turn (lines 86-89).
CompletionSucceedsSetsFirst(r, aiResponse) ==
    LET run == runs[r]
        put == SetLimited(userConversations, heap, run.userId, run.conversation)
        h1  == [put.heap EXCEPT ![run.conversation] = Append(@, AssistantTurn(aiResponse))]
    IN  /\ r \in DOMAIN runs
        /\ run.pc = "awaiting"
        /\ userConversations' = put.store
        /\ runs' = [runs EXCEPT ![r] = [@ EXCEPT !.pc = "done", !.conversation = NoAddr,
                                                 !.outcome = "ok", !.aiResponse = aiResponse,
                                                 !.steps = @ \o <<"set", "pushAssistant",
                                                                  "sendMessage">>]]
        /\ heap' = Collect(h1, put.store, runs')
        /\ outbox' = Send(outbox, r, run.chatId, "message", aiResponse)
        /\ UNCHANGED <<msgCount, inbox, trimVars>>

\* processAIRequest after the await resolved with a completion (lines 83-95).
CompletionSucceeds(r, aiResponse) ==
    LET run == runs[r]
        h1  == [heap EXCEPT ![run.conversation] = Append(@, AssistantTurn(aiResponse))]
        put == SetLimited(userConversations, h1, run.userId, run.conversation)
    IN  /\ r \in DOMAIN runs
        /\ run.pc = "awaiting"
        /\ userConversations' = put.store
        /\ runs' = [runs EXCEPT ![r] = [@ EXCEPT !.pc = "done", !.conversation = NoAddr,
                                                 !.outcome = "ok", !.aiResponse = aiResponse,
                                                 !.steps = @ \o <<"pushAssistant", "set",
                                                                  "sendMessage">>]]
        /\ heap' = Collect(put.heap, put.store, runs')
        /\ outbox' = Send(outbox, r, run.chatId, "message", aiResponse)
        /\ UNCHANGED <<msgCount, inbox, trimVars>>

\* The catch block recording its error text as the assistant's Turn.
CompletionFailsRecordsError(r, status) ==
    LET run == runs[r]
        h1  == [heap EXCEPT ![run.conversation] =
                    Append(@, AssistantTurn(ErrorMessage(status)))]
    IN  /\ r \in DOMAIN runs
        /\ run.pc = "awaiting"
        /\ runs' = [runs EXCEPT ![r] = [@ EXCEPT !.pc = "done", !.conversation = NoAddr,
                                                 !.outcome = "fail", !.status = status,
                                                 !.steps = Append(@, "sendMessage")]]
        /\ heap' = Collect(h1, userConversations, runs')
        /\ outbox' = Send(outbox, r, run.chatId, "message", ErrorMessage(status))
        /\ UNCHANGED <<userConversations, msgCount, inbox, trimVars>>

\* The catch block calling the Completion Client once more before giving up.
CompletionFailsRetriesOnce(r, status) ==
    LET run == runs[r]
    IN  /\ r \in DOMAIN runs
        /\ run.pc = "awaiting"
        /\ IF run.calls = 1
           THEN /\ runs' = [runs EXCEPT ![r].calls = 2]
                /\ UNCHANGED <<heap, outbox>>
           ELSE /\ runs' = [runs EXCEPT ![r] = [@ EXCEPT !.pc = "done", !.conversation = NoAddr,
                                                         !.outcome = "fail", !.status = status,
                                                 !.steps = Append(@, "sendMessage")]]
                /\ heap' = Collect(heap, userConversations, runs')
                /\ outbox' = Send(outbox, r, run.chatId, "message", ErrorMessage(status))
        /\ UNCHANGED <<userConversations, msgCount, inbox, trimVars>>

\* processAIRequest when the await (or reading the response) threw (lines 97-111).
CompletionFails(r, status) ==
    LET run == runs[r]
    IN  /\ r \in DOMAIN runs
        /\ run.pc = "awaiting"
        /\ runs' = [runs EXCEPT ![r] = [@ EXCEPT !.pc = "done", !.conversation = NoAddr,
                                                 !.outcome = "fail", !.status = status,
                                                 !.steps = Append(@, "sendMessage")]]
        /\ heap' = Collect(heap, userConversations, runs')
        /\ outbox' = Send(outbox, r, run.chatId, "message", ErrorMessage(status))
        /\ UNCHANGED <<userConversations, msgCount, inbox, trimVars>>

\* The clear handler emptying the whole Map.
DeleteEveryConversation(store, userId) == [u \in DOMAIN store |-> NoAddr]

\* The clear handler forgetting to delete.
KeepConversation(store, userId) == store

\* userConversations.delete(userId)
DeleteConversation(store, userId) == [store EXCEPT ![userId] = NoAddr]

\* bot.onText(/\/clear/)
onClear(st, id, userId) ==
    [store  |-> DeleteConversation(st.store, userId),
     heap   |-> st.heap,
     runs   |-> [r \in DOMAIN st.runs |->
                    IF st.runs[r].userId = userId /\ st.runs[r].pc = "awaiting"
                    THEN [st.runs[r] EXCEPT !.clearedAt = id] ELSE st.runs[r]],
     outbox |-> Send(st.outbox, id, userId, "message", ClearedText)]

\* An inbound "/clear".
Clear(userId) ==
    /\ msgCount' = msgCount + 1
    /\ inbox' = Append(inbox, [from |-> userId, text |-> <<"/clear">>])
    /\ Commit(onClear(Cur, msgCount + 1, userId))
    /\ UNCHANGED trimVars

\* bot.onText(/\/start/)
onStart(st, id, chatId) ==
    [st EXCEPT !.outbox = Send(@, id, chatId, "message", WelcomeText)]

\* bot.onText(/\/ask$/)
onAskBare(st, id, chatId) ==
    [st EXCEPT !.outbox = Send(@, id, chatId, "message", AskHelpText)]

\* bot.onText(/\/help/)
onHelp(st, id, chatId) ==
    [st EXCEPT !.outbox = Send(@, id, chatId, "message", HelpText)]

\* bot.on('message') with line 224 in force: freeform text enters the
\* pipeline.
onMessageEntersPipeline(st, id, userId, text) ==
    IF text # <<>> /\ text[1] \in {"/start", "/ask", "/clear", "/help"}
    THEN st
    ELSE IF text = <<>> THEN st ELSE onAskQuestion(st, id, userId, text)

\* bot.on('message'): returns at once for a command and for a message
\* without text; for any other text it does nothing either, the call of
\* processAIRequest (line 224) being commented out.
onMessage(st, id, userId, text) ==
    IF text # <<>> /\ text[1] \in {"/start", "/ask", "/clear", "/help"}
    THEN st
    ELSE IF text = <<>> THEN st ELSE st

\* The regular expressions of the onText registrations, on token sequences.
\* None is anchored at the start of the text.
Contains(text, word) == \E i \in 1..Len(text) : text[i] = word

\* /\/ask (.+)/: "/ask", one space, and at least one more character.
AskMatches(text) ==
    {i \in 1..Len(text) : i + 2 <= Len(text) /\ text[i] = "/ask" /\ text[i + 1] = " "}

\* match[1] of the leftmost match: everything after "/ask ".
AskQuestionOf(text) ==
    LET i == CHOOSE j \in AskMatches(text) : \A k \in AskMatches(text) : j <= k
    IN  SubSeq(text, i + 2, Len(text))

\* /\/ask$/
EndsWithAsk(text) == text # <<>> /\ text[Len(text)] = "/ask"

\* The library's dispatch of one inbound message (the bot is constructed
\* with { polling: true } only, line 23): the 'message' listener is called,
\* then, for a message that has text, every onText registration whose
\* expression matches, in the order of registration. Each callback runs to
\* its first await before the next one is called.
Dispatch(st, id, userId, text) ==
    LET s0 == onMessage(st, id, userId, text)
        s1 == IF Contains(text, "/start") THEN onStart(s0, id, userId) ELSE s0
        s2 == IF AskMatches(text) # {}
              THEN onAskQuestion(s1, id, userId, AskQuestionOf(text)) ELSE s1
        s3 == IF EndsWithAsk(text) THEN onAskBare(s2, id, userId) ELSE s2
        s4 == IF Contains(text, "/clear") THEN onClear(s3, id, userId) ELSE s3
        s5 == IF Contains(text, "/help") THEN onHelp(s4, id, userId) ELSE s4
    IN  s5

\* An inbound message of any kind; text <<>> is a message without text.
Receive(userId, text) ==
    /\ msgCount' = msgCount + 1
    /\ inbox' = Append(inbox, [from |-> userId, text |-> text])
    /\ Commit(Dispatch(Cur, msgCount + 1, userId, text))
    /\ UNCHANGED trimVars

---------------------------------------------------------------------------
(* The bot: any users, overlapping requests *)

Next ==
    \/ /\ msgCount < MaxMsgs
       /\ \E u \in Users, q \in Questions(msgCount + 1) : AskQuestion(u, q)
    \/ \E r \in DOMAIN runs : \E a \in Replies(r) : CompletionSucceeds(r, a)
    \/ \E r \in DOMAIN runs, s \in Statuses : CompletionFails(r, s)
    \/ /\ msgCount < MaxMsgs
       /\ \E u \in Users : Clear(u)

Spec == Init /\ [][Next]_vars

---------------------------------------------------------------------------
(* One user over many messages: the history outgrows MaxMessages *)

\* The stored history of u is still short: the limiter is far from acting.
Warming(u) ==
    \/ userConversations[u] = NoAddr
    \/ Len(heap[userConversations[u]]) < WarmTurns

\* While the history is short the exchanges are sequential and succeed; once
\* it nears MaxMessages, requests overlap, fail and are cleared freely.
NextLong ==
    \/ /\ msgCount < LongMsgs
       /\ \E u \in LongUsers, q \in LongQuestions(msgCount + 1) :
             /\ Cardinality(InFlight(runs, u)) < (IF Warming(u) THEN 1 ELSE LongInFlight)
             /\ AskQuestion(u, q)
    \/ \E r \in DOMAIN runs : \E a \in Replies(r) : CompletionSucceeds(r, a)
    \/ \E r \in DOMAIN runs, s \in LongStatuses :
          /\ ~Warming(runs[r].userId)
          /\ CompletionFails(r, s)
    \/ /\ msgCount < LongMsgs
       /\ \E u \in LongUsers :
             /\ ~Warming(u)
             /\ Clear(u)

SpecLong == Init /\ [][NextLong]_vars

---------------------------------------------------------------------------
(* Messages of every kind, and every kind of failure *)

\* The texts the k-th inbound message may have: no text, freeform text, each
\* command alone, an ask with a blank question, and asks whose question
\* mentions another command.
RouteTexts(k) ==
    {<<>>, <<"hello">>, <<"/start">>, <<"/ask">>, <<"/clear">>, <<"/help">>,
     <<"/ask", " ", " ">>,
     <<"/ask", " ", QuestionWord[k]>>,
     <<"/ask", " ", QuestionWord[k], " ", "/start">>,
     <<"/ask", " ", QuestionWord[k], " ", "/clear">>,
     <<"/ask", " ", QuestionWord[k], " ", "/help">>}

NextRoute ==
    \/ /\ msgCount < MaxRouteMsgs
       /\ \E u \in RouteUsers : \E text \in RouteTexts(msgCount + 1) : Receive(u, text)
    \/ \E r \in DOMAIN runs : \E a \in Replies(r) : CompletionSucceeds(r, a)
    \/ \E r \in DOMAIN runs : \E status \in AllStatuses : CompletionFails(r, status)

SpecRoute == Init /\ [][NextRoute]_vars

\* The completion call of every run eventually returns or fails.
CompletionReturns(r) ==
    \/ \E a \in Replies(r) : CompletionSucceeds(r, a)
    \/ \E status \in AllStatuses : CompletionFails(r, status)

SpecRouteFair ==
    SpecRoute /\ \A r \in 1..MaxRouteMsgs : WF_vars(CompletionReturns(r))

---------------------------------------------------------------------------
(* The limiter alone, applied again and again to its own result *)

TrimWords == {UserTurn(<<"q1">>), AssistantTurn(<<"r1">>)}

TrimTails == UNION {[1..n -> TrimWords] : n \in 0..(MaxTrimLen - 1)}

\* Conversations as the bot holds them: the system Turn, then user and assistant Turns.
TrimInputs == {<<SystemTurn>> \o w : w \in TrimTails}

TrimBounds == (1..MaxTrimBound) \cup {MaxMessages}

InitTrim ==
    /\ InitBot
    /\ trimIn \in TrimInputs
    /\ trimMax \in TrimBounds
    /\ trimOut = <<>>

LimitOnce ==
    /\ Len(trimOut) = 0
    /\ trimOut' = <<limitConversationHistory(trimIn, trimMax)>>
    /\ UNCHANGED <<userConversations, heap, runs, outbox, msgCount, inbox, trimIn, trimMax>>

LimitAgain ==
    /\ Len(trimOut) = 1
    /\ trimOut' = Append(trimOut, limitConversationHistory(trimOut[1], trimMax))
    /\ UNCHANGED <<userConversations, heap, runs, outbox, msgCount, inbox, trimIn, trimMax>>

NextTrim == LimitOnce \/ LimitAgain

SpecTrim == InitTrim /\ [][NextTrim]_vars

---------------------------------------------------------------------------
(* What the claims speak of *)

\* The transcript the Session Store holds for u (<<>>: no session).
Stored(u) ==
    IF userConversations[u] = NoAddr THEN <<>> ELSE heap[userConversations[u]]

HasSession(u) == userConversations[u] # NoAddr

SystemCount(t) == Cardinality({i \in 1..Len(t) : t[i].role = "system"})

\* trim(T, max) as the specification words it: T itself when short enough,
\* else Turn 0 followed by the last max - 1 Turns in their order.
Trimmed(T, max) ==
    IF Len(T) <= max
    THEN T
    ELSE [i \in 1..max |-> IF i = 1 THEN T[1] ELSE T[Len(T) - max + i]]

---------------------------------------------------------------------------
(* C1: every transcript in the Session Store has the system Turn at index 0
   and holds exactly one Turn of role system, whatever asks, completions,
   failures and clears have happened. *)
C1_SystemTurnFirstAndOnly ==
    \A u \in Users :
        HasSession(u) =>
            /\ Stored(u)[1] = [role |-> "system", content |-> SystemPrompt]
            /\ SystemCount(Stored(u)) = 1

\* A transcript that has been cut by the limiter, with replies to requests
\* that overlapped or were cleared on the way.
C1_Witness ==
    \E u \in Users :
        /\ HasSession(u)
        /\ Len(Stored(u)) = MaxMessages
        /\ Stored(u)[2].role # "user"
        /\ \E r \in DOMAIN runs : runs[r].overlapped /\ runs[r].outcome = "ok"

(* C2: trim(T, max) is T when T has at most max Turns, and otherwise T[0]
   followed by the last max - 1 Turns of T in order: first Turn T[0],
   length exactly max. *)
C2_TrimAsSpecified ==
    Len(trimOut) >= 1 =>
        /\ trimOut[1] = Trimmed(trimIn, trimMax)
        /\ Len(trimIn) > trimMax =>
              /\ trimOut[1][1] = trimIn[1]
              /\ Len(trimOut[1]) = trimMax

(* C3: trimming is idempotent: trimming the trimmed transcript with the
   same bound changes nothing. *)
C3_TrimIdempotent ==
    Len(trimOut) >= 2 => trimOut[2] = trimOut[1]

---------------------------------------------------------------------------
(* Steps of a pipeline run, as seen from outside *)

\* This step is the failure of run r / the success of run r.
FailStep(r) == runs[r].pc = "awaiting" /\ runs'[r].outcome = "fail"
OkStep(r) == runs[r].pc = "awaiting" /\ runs'[r].outcome = "ok"

\* Nothing in the Session Store changes in this step.
StoreUntouched ==
    /\ userConversations' = userConversations
    /\ \A v \in Users : Stored(v)' = Stored(v)

\* The transcript run r loaded, followed by the user Turn of its message.
WithQuestion(r) ==
    Append(runs[r].base, [role |-> "user", content |-> runs[r].userMessage])

LastSent == outbox[Len(outbox)]

(* C4, as claimed: after a completion failure in a run for u that no other
   run for u overlapped, the stored transcript for u is the transcript
   stored before the run followed by the one user Turn of the message, no
   assistant Turn, and nothing else in the store changes. *)
C4_AsClaimed ==
    [][\A r \in DOMAIN runs :
          (FailStep(r) /\ ~runs[r].overlapped) =>
              /\ Stored(runs[r].userId)' = WithQuestion(r)
              /\ StoreUntouched]_vars

(* C4, amended: the same, for a run during which no clear command of u was
   processed either. *)
C4_FailureKeepsQuestionOnly ==
    [][\A r \in DOMAIN runs :
          (FailStep(r) /\ ~runs[r].overlapped /\ runs[r].clearedAt = 0) =>
              /\ Stored(runs[r].userId)' = WithQuestion(r)
              /\ StoreUntouched]_vars

\* A request on a session that already held an exchange has just failed.
C4_Witness ==
    \E r \in DOMAIN runs :
        /\ runs[r].outcome = "fail"
        /\ ~runs[r].overlapped
        /\ runs[r].clearedAt = 0
        /\ Len(runs[r].base) > 1
        /\ LastSent.msgId = r
        /\ LastSent.kind = "message"
        /\ Stored(runs[r].userId) = WithQuestion(r)

(* C5: after a successful run for u with question q and reply r that no
   other run for u overlapped, the stored transcript is
   trim(append(trim(append(T, user(q))), assistant(r))) with max 20, T being
   the transcript stored when the run began; for a fresh user that is
   [system, user(q), assistant(r)]; and the text dispatched is r. *)
C5_SuccessStoresExchange ==
    [][\A r \in DOMAIN runs :
          (OkStep(r) /\ ~runs[r].overlapped) =>
              LET reply == runs'[r].aiResponse
                  turn  == [role |-> "assistant", content |-> reply]
              IN  /\ Stored(runs[r].userId)' =
                        Trimmed(Append(Trimmed(WithQuestion(r), 20), turn), 20)
                  /\ runs[r].base = <<SystemTurn>> =>
                        Stored(runs[r].userId)' =
                            <<[role |-> "system", content |-> SystemPrompt],
                              [role |-> "user", content |-> runs[r].userMessage],
                              turn>>
                  /\ outbox' = Append(outbox, [msgId |-> r, chatId |-> runs[r].chatId,
                                               kind |-> "message", text |-> reply])]_vars

\* A request whose question already overflowed the bound (the transcript it
\* loaded had more than 20 Turns) has just succeeded.
C5_Witness ==
    \E r \in DOMAIN runs :
        /\ runs[r].outcome = "ok"
        /\ ~runs[r].overlapped
        /\ Len(runs[r].base) > 20
        /\ LastSent.msgId = r
        /\ LastSent.text = runs[r].aiResponse
        /\ Len(Stored(runs[r].userId)) = 20

---------------------------------------------------------------------------
(* Histories *)

RunsOf(u) == {r \in DOMAIN runs : runs[r].userId = u}

\* Every message so far was a question of u, each answered before the next arrived.
OnlySuccessiveSuccesses(u) ==
    /\ msgCount >= 1
    /\ DOMAIN runs = 1..msgCount
    /\ \A r \in DOMAIN runs :
          /\ runs[r].userId = u
          /\ runs[r].outcome = "ok"
          /\ ~runs[r].overlapped
          /\ runs[r].clearedAt = 0

\* The Turns of the first n exchanges, in the order they were exchanged.
Exchanges(n) ==
    [i \in 1..(2 * n) |->
        IF i % 2 = 1
        THEN [role |-> "user", content |-> runs[(i + 1) \div 2].userMessage]
        ELSE [role |-> "assistant", content |-> runs[i \div 2].aiResponse]]

\* How often Turn x occurs in transcript t.
Occurrences(t, x) == Cardinality({i \in 1..Len(t) : t[i] = x})

RoleCount(t, role) == Cardinality({i \in 1..Len(t) : t[i].role = role})

\* No clear command of u has been handled.
NeverCleared(u) ==
    \A i \in 1..Len(outbox) : ~(outbox[i].chatId = u /\ outbox[i].text = ClearedText)

\* The latest inbound message of u was a clear command: its number.
LastClear(u) ==
    {outbox[i].msgId : i \in {j \in 1..Len(outbox) :
        /\ outbox[j].chatId = u
        /\ outbox[j].text = ClearedText
        /\ \A k \in 1..Len(outbox) :
              outbox[k].chatId = u => outbox[k].msgId <= outbox[j].msgId}}

(* C6: after n successive successful exchanges of one user the stored
   transcript has min(2n + 1, 20) Turns, Turn 0 is the system Turn, and the
   other Turns are the most recent exchange Turns in their original order. *)
C6_SuccessiveExchangesBounded ==
    \A u \in LongUsers :
        OnlySuccessiveSuccesses(u) =>
            LET n == msgCount
                t == Stored(u)
                k == Len(t) - 1
            IN  /\ Len(t) = Min(2 * n + 1, 20)
                /\ t[1] = [role |-> "system", content |-> SystemPrompt]
                /\ \A i \in 1..k : t[i + 1] = Exchanges(n)[2 * n - k + i]

\* Twelve exchanges done: the oldest Turns have been evicted.
C6_Witness ==
    \E u \in LongUsers :
        /\ OnlySuccessiveSuccesses(u)
        /\ msgCount >= 12
        /\ Len(Stored(u)) = 20

(* C7: pipeline runs are serialized per user: a later message's session
   load never begins while an earlier run of the same user has not yet
   persisted, so at most one run per user is between load and persistence. *)
C7_SerializedPerUser ==
    \A u \in Users : Cardinality(InFlight(runs, u)) <= 1

\* Two questions of a fresh user, no clear, both runs finished.
TwoAsksFinished(u) ==
    /\ Cardinality(RunsOf(u)) = 2
    /\ \A r \in RunsOf(u) : runs[r].pc = "done"
    /\ NeverCleared(u)

(* C8: two asks of a fresh user, the second after the first's persistence
   or while the first is in flight: once both runs finished, the stored
   transcript holds both user Turns and one assistant Turn per run that
   succeeded. *)
C8_TwoAsksBothRecorded ==
    \A u \in Users :
        TwoAsksFinished(u) =>
            LET t == Stored(u)
            IN  /\ RoleCount(t, "user") = 2
                /\ \A r \in RunsOf(u) :
                      Occurrences(t, [role |-> "user", content |-> runs[r].userMessage]) = 1
                /\ RoleCount(t, "assistant") =
                      Cardinality({r \in RunsOf(u) : runs[r].outcome = "ok"})
                /\ \A r \in RunsOf(u) :
                      runs[r].outcome = "ok" =>
                          Occurrences(t, [role |-> "assistant",
                                          content |-> runs[r].aiResponse]) = 1

\* The second question arrived while the first was in flight; one run
\* succeeded and the other failed.
C8_Witness ==
    \E u \in Users :
        /\ TwoAsksFinished(u)
        /\ \A r \in RunsOf(u) : runs[r].overlapped
        /\ \E r \in RunsOf(u) : runs[r].outcome = "ok"
        /\ \E r \in RunsOf(u) : runs[r].outcome = "fail"

\* What getUserConversation yields now for u: the transcript returned.
Loaded(u) ==
    LET got == getUserConversation(userConversations, heap, u)
    IN  got.heap[got.ref]

\* What it yields for a user the bot has never seen.
LoadedFresh(u) ==
    LET got == getUserConversation(EmptyStore, EmptyHeap, u)
    IN  got.heap[got.ref]

(* C9: clear(u) followed by get_or_create(u), no run of u being in flight
   when the clear is handled, yields a transcript of length 1 holding only
   the system Turn: what a never-seen user gets. *)
C9_ClearThenLoadIsFresh ==
    \A u \in Users : \A c \in LastClear(u) :
        (\A r \in RunsOf(u) : runs[r].clearedAt # c) =>
            /\ Len(Loaded(u)) = 1
            /\ Loaded(u)[1] = [role |-> "system", content |-> SystemPrompt]
            /\ Loaded(u) = LoadedFresh(u)

\* A user with a finished exchange has just cleared the history.
C9_Witness ==
    \E u \in Users : \E c \in LastClear(u) :
        /\ \A r \in RunsOf(u) : runs[r].clearedAt # c
        /\ \E r \in RunsOf(u) : runs[r].outcome = "ok"
        /\ LastSent.msgId = c

\* This step is the handling of an ask that entered the pipeline as run id.
AskStep(id) == id = msgCount + 1 /\ id \notin DOMAIN runs /\ id \in DOMAIN runs'

(* C10: get_or_create(u) for a user without a session creates and returns
   a transcript whose only Turn is the system Turn with the directive; for
   a user with a session it returns the stored transcript and does not
   re-seed; no other user's entry changes. *)
C10_GetOrCreate ==
    [][\A id \in 1..(msgCount + 1) : \A u \in Users :
          (AskStep(id) /\ runs'[id].userId = u) =>
              /\ IF HasSession(u)
                 THEN /\ runs'[id].base = Stored(u)
                      /\ runs'[id].conversation = userConversations[u]
                      /\ userConversations' = userConversations
                 ELSE /\ runs'[id].base = <<[role |-> "system", content |-> SystemPrompt]>>
                      /\ userConversations'[u] = runs'[id].conversation
              /\ Stored(u)' =
                    Append(runs'[id].base,
                           [role |-> "user", content |-> runs'[id].userMessage])
              /\ \A v \in Users \ {u} :
                    /\ userConversations'[v] = userConversations[v]
                    /\ Stored(v)' = Stored(v)]_vars

\* A user with a stored exchange has just asked again, while another user
\* has a session of their own.
C10_Witness ==
    \E r \in DOMAIN runs :
        /\ runs[r].pc = "awaiting"
        /\ Len(runs[r].base) > 1
        /\ LastSent.msgId = r
        /\ \E v \in Users \ {runs[r].userId} : HasSession(v)

---------------------------------------------------------------------------
\* The notice the specification assigns to each kind of failure.
NoticeFor(status) ==
    CASE status = 401 -> ErrAuth
      [] status = 429 -> ErrRate
      [] status = 500 -> ErrUnavailable
      [] OTHER -> ErrGeneric

\* The entries of the outbox that answer message id with a text.
TextsFor(id) ==
    {i \in 1..Len(outbox) : outbox[i].msgId = id /\ outbox[i].kind = "message"}

(* C11: when the completion call fails, the text dispatched is fixed by the
   kind of failure alone: 401 gives the credential notice, 429 the
   retry-shortly notice, 500 the upstream-down notice, and every other
   failure, one without a status included, the generic notice; the run ends
   there and the failure goes no further. *)
C11_ErrorTextByKind ==
    [][\A r \in DOMAIN runs :
          FailStep(r) =>
              /\ outbox' = Append(outbox, [msgId |-> r, chatId |-> runs[r].chatId,
                                           kind |-> "message",
                                           text |-> NoticeFor(runs'[r].status)])
              /\ runs'[r].pc = "done"
              /\ runs'[r].aiResponse = <<>>]_vars

C11_Witness ==
    \E r1, r2 \in DOMAIN runs :
        /\ runs[r1].outcome = "fail" /\ runs[r1].status = 401
        /\ \E i \in TextsFor(r1) : outbox[i].text = ErrAuth
        /\ runs[r2].outcome = "fail" /\ runs[r2].status = 503
        /\ \E i \in TextsFor(r2) : outbox[i].text = ErrGeneric

---------------------------------------------------------------------------
\* A step that handles one inbound message, and the text of that message.
ReceiveStep == msgCount' = msgCount + 1

TextReceived == inbox'[msgCount + 1].text

\* The inbound forms other than an ask with a question: no text, freeform
\* text, and the start, bare ask, blank ask, clear and help commands.
OtherForms ==
    {<<>>, <<"hello">>, <<"/start">>, <<"/ask">>, <<"/ask", " ", " ">>,
     <<"/clear">>, <<"/help">>}

\* No completion call is made by the step: no run starts and no run calls.
NoCompletionCall ==
    /\ DOMAIN runs' = DOMAIN runs
    /\ \A r \in DOMAIN runs : runs'[r].calls = runs[r].calls /\ runs'[r].pc = runs[r].pc

\* No transcript gains a Turn in the step: no array is created or changed.
NoTurnAppended ==
    \A a \in DOMAIN heap' : a \in DOMAIN heap /\ heap'[a] = heap[a]

(* C12: only an ask with a question enters the pipeline: a start command, an
   ask without a question, a clear command, a help command, freeform text and
   a message without text make no completion call and append no Turn to any
   transcript, and of these only the clear command changes the store. *)
C12_OnlyAskEntersPipeline ==
    [][(ReceiveStep /\ TextReceived \in OtherForms) =>
           /\ NoCompletionCall
           /\ NoTurnAppended
           /\ (TextReceived # <<"/clear">> => userConversations' = userConversations)]_vars

C12_Witness ==
    /\ Len(inbox) = 2
    /\ 1 \in DOMAIN runs /\ runs[1].outcome = "ok"
    /\ inbox[2].text = <<"hello">>
    /\ HasSession(inbox[2].from)
    /\ Len(Stored(inbox[2].from)) = 3
    /\ DOMAIN runs = {1}

---------------------------------------------------------------------------
\* The canned texts of the handlers other than the pipeline.
CannedTexts == {WelcomeText, AskHelpText, HelpText, ClearedText, AskUsageText}

(* C13: routing selects exactly one action per inbound text: a message
   handled as an ask with a question is not also handled as start, clear or
   help, so an ask whose question mentions another command enters the
   pipeline, leaves the sender's session in the store and emits no welcome,
   clear or help text. *)
C13_ExactlyOneAction ==
    [][(/\ ReceiveStep
        /\ AskMatches(TextReceived) # {}
        /\ JsTrim(AskQuestionOf(TextReceived)) # <<>>) =>
           LET id == msgCount + 1
               u  == inbox'[id].from
           IN  /\ id \in DOMAIN runs'
               /\ userConversations'[u] # NoAddr
               /\ outbox' = Append(outbox, [msgId |-> id, chatId |-> u,
                                            kind |-> "chatAction",
                                            text |-> TypingAction])]_vars

---------------------------------------------------------------------------
\* The texts the pipeline has dispatched for message id: its replies and
\* error notices, the canned texts of the other handlers set aside.
PipelineTexts(id) == {i \in TextsFor(id) : outbox[i].text \notin CannedTexts}

\* What run r has dispatched so far is what its outcome calls for.
DispatchedAsDue(r) ==
    CASE runs[r].outcome = "pending" -> PipelineTexts(r) = {}
      [] runs[r].outcome = "ok" ->
             /\ Cardinality(PipelineTexts(r)) = 1
             /\ \A i \in PipelineTexts(r) : outbox[i].text = runs[r].aiResponse
      [] runs[r].outcome = "fail" ->
             /\ Cardinality(PipelineTexts(r)) = 1
             /\ \A i \in PipelineTexts(r) : outbox[i].text = NoticeFor(runs[r].status)

(* C14: every pipeline run calls the Completion Client exactly once, with no
   retry after a failure, and, the call eventually returning or failing,
   eventually has dispatched exactly one text for its message: the reply
   after a success, one error notice after a failure, never both and never
   none. *)
C14_OneCallOneText ==
    /\ [](\A r \in DOMAIN runs : runs[r].calls = 1 /\ DispatchedAsDue(r))
    /\ \A r \in 1..MaxRouteMsgs :
           (r \in DOMAIN runs) ~>
               (/\ r \in DOMAIN runs
                /\ runs[r].pc = "done"
                /\ Cardinality(PipelineTexts(r)) = 1)

C14_Witness ==
    \E r1, r2 \in DOMAIN runs :
        /\ runs[r1].outcome = "ok" /\ runs[r2].outcome = "fail"
        /\ Cardinality(PipelineTexts(r1)) = 1
        /\ Cardinality(PipelineTexts(r2)) = 1
        /\ Cardinality(TextsFor(r2)) = 2

---------------------------------------------------------------------------
\* app.get('/stats'): userConversations.size.
ActiveConversations == Cardinality({u \in Users : userConversations[u] # NoAddr})

(* C15: once a clear command of user u has been handled and no later message
   of u has arrived, the store holds no session for u and the count of
   active sessions does not include u, even when a completion call for u
   was in flight at the clear and resolves afterwards. *)
C15_ClearSurvivesCompletion ==
    \A u \in Users :
        LastClear(u) # {} =>
            /\ ~HasSession(u)
            /\ ActiveConversations = Cardinality({v \in Users \ {u} : HasSession(v)})

---------------------------------------------------------------------------
\* The run of the message of u received last.
LatestRun(u) == CHOOSE r \in RunsOf(u) : \A q \in RunsOf(u) : q <= r

(* C16: whatever the interleaving of overlapping runs of one user, no clear
   command being given, once all runs have finished the stored transcript
   contains the user Turn of the message received last. *)
C16_LatestQuestionStored ==
    \A u \in Users :
        (RunsOf(u) # {} /\ InFlight(runs, u) = {} /\ NeverCleared(u)) =>
            \E i \in 1..Len(Stored(u)) :
                Stored(u)[i] = UserTurn(runs[LatestRun(u)].userMessage)

---------------------------------------------------------------------------
(* C17: whenever no run of user u is in flight, the stored transcript of u
   has at most MaxMessages Turns, after any sequence of successful and
   failed exchanges. *)
C17_StoredWithinBound ==
    \A u \in Users :
        (HasSession(u) /\ InFlight(runs, u) = {}) => Len(Stored(u)) <= MaxMessages

---------------------------------------------------------------------------
(* C18: every transcript sent to the Completion Client is the transcript
   after trimming: it has at most MaxMessages Turns, its first Turn is the
   system Turn and its last Turn is the user Turn of the message being
   processed, however long the stored transcript is at that moment. *)
C18_SentTranscriptTrimmed ==
    \A r \in DOMAIN runs :
        LET sent == runs[r].messages
        IN  /\ Len(sent) <= MaxMessages
            /\ sent[1] = SystemTurn
            /\ sent[Len(sent)] = UserTurn(runs[r].userMessage)
            /\ sent = Trimmed(Append(runs[r].base, UserTurn(runs[r].userMessage)),
                              MaxMessages)

C18_Witness ==
    \E r \in DOMAIN runs :
        /\ Len(runs[r].base) > MaxMessages
        /\ Len(runs[r].messages) = MaxMessages
        /\ runs[r].pc = "awaiting"

---------------------------------------------------------------------------
\* In the sequence s of executed calls, a and b occur once each, a first.
Before(s, a, b) ==
    /\ Cardinality({i \in 1..Len(s) : s[i] = a}) = 1
    /\ Cardinality({i \in 1..Len(s) : s[i] = b}) = 1
    /\ \E i, j \in 1..Len(s) : i < j /\ s[i] = a /\ s[j] = b

\* The typing signal of message id is in the outbox, ahead of every text
\* the pipeline has dispatched for it.
TypingFirst(id) ==
    \E i \in 1..Len(outbox) :
        /\ outbox[i] = [msgId |-> id, chatId |-> runs[id].chatId,
                        kind |-> "chatAction", text |-> TypingAction]
        /\ \A j \in PipelineTexts(id) : i < j

(* C19: in a successful run the typing signal is emitted before the
   completion call is made, the assistant Turn is appended before the store
   is updated, and the store is updated before the reply is dispatched; when
   the reply is dispatched the stored transcript ends with the assistant
   Turn of that reply. *)
C19_SideEffectsInOrder ==
    [][\A r \in DOMAIN runs :
          OkStep(r) =>
              LET s     == runs'[r].steps
                  reply == runs'[r].aiResponse
              IN  /\ Before(s, "sendChatAction", "create")
                  /\ Before(s, "create", "pushAssistant")
                  /\ Before(s, "pushAssistant", "set")
                  /\ Before(s, "set", "sendMessage")
                  /\ TypingFirst(r)
                  /\ outbox' = Append(outbox, [msgId |-> r, chatId |-> runs[r].chatId,
                                               kind |-> "message", text |-> reply])
                  /\ \A u \in Users :
                         runs[r].userId = u =>
                             /\ HasSession(u)'
                             /\ Stored(u)'[Len(Stored(u)')] = AssistantTurn(reply)]_vars

C19_Witness ==
    \E r \in DOMAIN runs :
        /\ runs[r].outcome = "ok"
        /\ LastSent = [msgId |-> r, chatId |-> runs[r].chatId,
                       kind |-> "message", text |-> runs[r].aiResponse]
        /\ Len(runs[r].base) >= MaxMessages
        /\ Len(Stored(runs[r].userId)) = MaxMessages

---------------------------------------------------------------------------
\* The user whose event the step handles: every handler and every end of a
\* run sends to the chat of its user.
EventUser == outbox'[Len(outbox')].chatId

(* C20: sessions are isolated per user: an event of user u (an ask, the
   success or failure of a completion, a clear) leaves the stored transcript
   of every other user as it was, also while runs of both users are in
   flight and resolve in any order. *)
C20_SessionsIsolated ==
    [][outbox' # outbox =>
          \A v \in Users \ {EventUser} :
              /\ userConversations'[v] = userConversations[v]
              /\ HasSession(v) => Stored(v)' = Stored(v)]_vars

C20_Witness ==
    \E r1, r2 \in DOMAIN runs :
        /\ r1 < r2
        /\ runs[r1].userId # runs[r2].userId
        /\ runs[r1].outcome = "ok" /\ runs[r2].outcome = "ok"
        /\ \E i \in PipelineTexts(r1) : \E j \in PipelineTexts(r2) : j < i
        /\ Stored(runs[r1].userId) =
               <<SystemTurn, UserTurn(runs[r1].userMessage), AssistantTurn(runs[r1].aiResponse)>>
        /\ Stored(runs[r2].userId) =
               <<SystemTurn, UserTurn(runs[r2].userMessage), AssistantTurn(runs[r2].aiResponse)>>

====
